---- MODULE Spec2Model ----
(***************************************************************************)
(* Model of the recipe-costing and stock-estimation engine of              *)
(* src/database.py (class Database): the tables productos, ingredientes    *)
(* and recetas as seen through the single connection, and one action per   *)
(* public operation.  Every quantity (price, cost, stock, requirement) is  *)
(* an integer number of some fixed smallest unit; floating-point rounding  *)
(* is not modelled, real division followed by int() is.                    *)
(*                                                                         *)
(* A table is a function from the ids of its rows to the rows.  A database *)
(* value D is a record [productos, ingredientes, recetas]; every operation *)
(* of the class is an operator from D (and its arguments) to a result      *)
(* [db |-> the database afterwards, ok |-> FALSE iff it raised].  The      *)
(* connection never rolls back, so statements executed before an exception *)
(* stay visible to the following operations.                               *)
(***************************************************************************)
EXTENDS Integers, Sequences, FiniteSets, TLC

VARIABLES
    productos,      \* table productos: id -> row
    ingredientes,   \* table ingredientes: id -> row
    recetas,        \* table recetas: id -> row
    lastOp,         \* the last call: its name, its first two arguments, ok = it
                    \* returned, exc = the exception it raised
    nops            \* how many calls were made

vars == <<productos, ingredientes, recetas, lastOp, nops>>

-----------------------------------------------------------------------------
(* Bounds of the model.                                                    *)

\* calls explored from the empty database
MaxOps == 5
\* largest ingredient stock a purchase may reach
MaxStock == 4
\* deepest oversell explored: stocks stay >= -MaxDeuda
MaxDeuda == 3
\* largest quantity sold in one call
MaxVendida == 2

\* the ids the calls are made with, in every table
Ids == {1, 2}
\* new_id = None (or 0, equally false in "if new_id and ..."): keep the id
NoId == 0

\* the values the calls are made with
Precios == {5, 7}
Costos == {1}
CostosUnitarios == {1, 2}
Cantidades == {1, 2}
CantidadesStock == {0, 1, 2}
StocksIniciales == {3}
Compras == {1}

-----------------------------------------------------------------------------
(* Generic helpers on tables.                                              *)

Put(t, k, row) == [x \in (DOMAIN t) \cup {k} |-> IF x = k THEN row ELSE t[x]]

Drop(t, k) == [x \in (DOMAIN t) \ {k} |-> t[x]]

EmptyTable == [x \in {} |-> 0]

RECURSIVE SumOver(_, _)
SumOver(S, f) ==
    IF S = {} THEN 0
    ELSE LET x == CHOOSE y \in S : TRUE IN f[x] + SumOver(S \ {x}, f)

SetMin(S) == CHOOSE x \in S : \A y \in S : x <= y

RECURSIVE SortedIds(_)
SortedIds(S) ==
    IF S = {} THEN <<>>
    ELSE LET m == SetMin(S) IN <<m>> \o SortedIds(S \ {m})

\* the call returns, the database being D
Ok(D) == [db |-> D, ok |-> TRUE, exc |-> "none"]

\* the call raises exc, the database being D
Raise(D, exc) == [db |-> D, ok |-> FALSE, exc |-> exc]

DB == [productos |-> productos, ingredientes |-> ingredientes, recetas |-> recetas]

-----------------------------------------------------------------------------
(* Schema and id validation.                                               *)

\* which tables declare the column "activo"
TieneActivo(table) == table \in {"productos", "ingredientes"}

id_exists(t, id_value) == id_value \in DOMAIN t

-----------------------------------------------------------------------------
(* Recipe graph, cost propagation and stock estimation.                    *)

\* The ids of the recipe lines the join returns: lines of the product whose
\* ingredient row exists and is active.
get_recetas_producto(D, id_producto) ==
    {r \in DOMAIN D.recetas :
        /\ D.recetas[r].id_producto = id_producto
        /\ D.recetas[r].id_ingrediente \in DOMAIN D.ingredientes
        /\ D.ingredientes[D.recetas[r].id_ingrediente].activo = 1}

\* costo_total with the quantity forgotten
costo_total_sin_cantidad(D, lineas) ==
    SumOver(lineas, [r \in lineas |->
        D.ingredientes[D.recetas[r].id_ingrediente].costo_unitario])

\* sum(r['cantidad_requerida'] * r['costo_unitario'] for r in recetas)
costo_total(D, lineas) ==
    SumOver(lineas, [r \in lineas |->
        D.recetas[r].cantidad_requerida
            * D.ingredientes[D.recetas[r].id_ingrediente].costo_unitario])

\* recalcular_costo_producto without its early return: an empty recipe sums to 0
recalcular_costo_sin_retorno(D, id_producto) ==
    LET lineas == get_recetas_producto(D, id_producto)
        total == costo_total(D, lineas)
    IN  IF id_producto \notin DOMAIN D.productos THEN D
        ELSE [D EXCEPT !.productos[id_producto] =
                 [@ EXCEPT !.costo = total,
                           !.ganancia = D.productos[id_producto].precio_unitario - total]]

\* recalcular_costo_producto writing the cost alone, the profit left as it was
recalcular_costo_sin_ganancia(D, id_producto) ==
    LET lineas == get_recetas_producto(D, id_producto) IN
    IF lineas = {} \/ id_producto \notin DOMAIN D.productos THEN D
    ELSE [D EXCEPT !.productos[id_producto].costo = costo_total(D, lineas)]

\* recalcular_costo_producto taking the new cost off the stored profit
\* (SET ganancia = ganancia - ?) instead of off the price
recalcular_costo_ganancia_acumulada(D, id_producto) ==
    LET lineas == get_recetas_producto(D, id_producto) IN
    IF lineas = {} \/ id_producto \notin DOMAIN D.productos THEN D
    ELSE LET total == costo_total(D, lineas) IN
         [D EXCEPT !.productos[id_producto] =
             [@ EXCEPT !.costo = total,
                       !.ganancia = D.productos[id_producto].ganancia - total]]

recalcular_costo_producto(D, id_producto) ==
    LET lineas == get_recetas_producto(D, id_producto) IN
    IF lineas = {} THEN D
    ELSE IF id_producto \notin DOMAIN D.productos THEN D
    ELSE LET total == costo_total(D, lineas) IN
         [D EXCEPT !.productos[id_producto] =
             [@ EXCEPT !.costo = total,
                       !.ganancia = D.productos[id_producto].precio_unitario - total]]

\* int(x) of the real x = num / den (den > 0): truncation towards zero
PyInt(num, den) ==
    IF num >= 0 THEN num \div den ELSE 0 - ((0 - num) \div den)

\* receta['cantidad_stock'] / receta['cantidad_requerida'] as a fraction
capacidad(D, r) ==
    [num |-> D.ingredientes[D.recetas[r].id_ingrediente].cantidad_stock,
     den |-> D.recetas[r].cantidad_requerida]

\* a line whose capacity is min(capacidades); fractions compared exactly
LineaMinima(D, lineas) ==
    CHOOSE r \in lineas : \A s \in lineas :
        capacidad(D, r).num * capacidad(D, s).den
            <= capacidad(D, s).num * capacidad(D, r).den

\* calcular_stock_estimado counting a line that requires nothing as a
\* capacity of 0 instead of leaving it out
calcular_stock_con_ceros(D, id_producto) ==
    LET lineas == get_recetas_producto(D, id_producto)
        cap(r) == IF D.recetas[r].cantidad_requerida > 0
                  THEN PyInt(capacidad(D, r).num, capacidad(D, r).den)
                  ELSE 0
    IN  IF lineas = {} THEN 0
        ELSE SetMin({cap(r) : r \in lineas})

calcular_stock_estimado(D, id_producto) ==
    LET lineas == get_recetas_producto(D, id_producto)
        conCantidad == {r \in lineas : D.recetas[r].cantidad_requerida > 0}
    IN  IF lineas = {} THEN 0
        ELSE IF conCantidad = {} THEN 0
        ELSE LET m == capacidad(D, LineaMinima(D, conCantidad))
             IN  PyInt(m.num, m.den)

\* actualizar_stock_estimado whose UPDATE has lost its WHERE id = ?
actualizar_stock_sin_where(D, id_producto) ==
    LET stock == calcular_stock_estimado(D, id_producto) IN
    [D EXCEPT !.productos =
        [p \in DOMAIN @ |-> [@[p] EXCEPT !.stock_estimado = stock]]]

actualizar_stock_estimado(D, id_producto) ==
    LET stock == calcular_stock_estimado(D, id_producto) IN
    IF id_producto \notin DOMAIN D.productos THEN D
    ELSE [D EXCEPT !.productos[id_producto].stock_estimado = stock]

RECURSIVE ActualizarCadaUno(_, _)
ActualizarCadaUno(D, ids) ==
    IF ids = <<>> THEN D
    ELSE ActualizarCadaUno(actualizar_stock_estimado(D, Head(ids)), Tail(ids))

\* actualizar_todos_stocks_estimados without the gestion_stock filter
actualizar_todos_sin_filtro(D) ==
    ActualizarCadaUno(D, SortedIds({p \in DOMAIN D.productos :
        D.productos[p].activo = 1}))

actualizar_todos_stocks_estimados(D) ==
    ActualizarCadaUno(D, SortedIds({p \in DOMAIN D.productos :
        D.productos[p].gestion_stock = 1 /\ D.productos[p].activo = 1}))

\* the same loop with the stock floored at zero
RECURSIVE DescontarLineasConPiso(_, _, _, _)
DescontarLineasConPiso(ing, rec, lineas, cantidad_vendida) ==
    IF lineas = <<>> THEN ing
    ELSE LET r == rec[Head(lineas)]
             cantidad_a_descontar == r.cantidad_requerida * cantidad_vendida
             i == r.id_ingrediente
         IN  DescontarLineasConPiso(
                 IF i \in DOMAIN ing
                 THEN [ing EXCEPT ![i].cantidad_stock =
                          IF @ - cantidad_a_descontar < 0 THEN 0
                          ELSE @ - cantidad_a_descontar]
                 ELSE ing,
                 rec, Tail(lineas), cantidad_vendida)

\* the same loop taking the requirement of one unit, whatever the quantity sold
RECURSIVE DescontarLineasPorUnidad(_, _, _, _)
DescontarLineasPorUnidad(ing, rec, lineas, cantidad_vendida) ==
    IF lineas = <<>> THEN ing
    ELSE LET r == rec[Head(lineas)]
             cantidad_a_descontar == r.cantidad_requerida
             i == r.id_ingrediente
         IN  DescontarLineasPorUnidad(
                 IF i \in DOMAIN ing
                 THEN [ing EXCEPT ![i].cantidad_stock = @ - cantidad_a_descontar]
                 ELSE ing,
                 rec, Tail(lineas), cantidad_vendida)

\* the loop of descontar_inventario_por_venta over the fetched lines; each
\* UPDATE reads the stock the previous one left
RECURSIVE DescontarLineas(_, _, _, _)
DescontarLineas(ing, rec, lineas, cantidad_vendida) ==
    IF lineas = <<>> THEN ing
    ELSE LET r == rec[Head(lineas)]
             cantidad_a_descontar == r.cantidad_requerida * cantidad_vendida
             i == r.id_ingrediente
         IN  DescontarLineas(
                 IF i \in DOMAIN ing
                 THEN [ing EXCEPT ![i].cantidad_stock = @ - cantidad_a_descontar]
                 ELSE ing,
                 rec, Tail(lineas), cantidad_vendida)

\* descontar_inventario_por_venta persisting the estimate before the decrements
descontar_estimando_antes(D, id_producto, cantidad_vendida) ==
    LET lineas == SortedIds(get_recetas_producto(D, id_producto))
        D1 == actualizar_stock_estimado(D, id_producto)
    IN  [D1 EXCEPT !.ingredientes =
            DescontarLineas(D.ingredientes, D.recetas, lineas, cantidad_vendida)]

\* descontar_inventario_por_venta running the cost propagation as well
descontar_recalculando_costo(D, id_producto, cantidad_vendida) ==
    LET lineas == SortedIds(get_recetas_producto(D, id_producto))
        D1 == [D EXCEPT !.ingredientes =
                  DescontarLineas(D.ingredientes, D.recetas, lineas, cantidad_vendida)]
    IN  recalcular_costo_producto(actualizar_stock_estimado(D1, id_producto),
                                  id_producto)

descontar_inventario_por_venta(D, id_producto, cantidad_vendida) ==
    LET lineas == SortedIds(get_recetas_producto(D, id_producto))
        D1 == [D EXCEPT !.ingredientes =
                  DescontarLineas(D.ingredientes, D.recetas, lineas, cantidad_vendida)]
    IN  actualizar_stock_estimado(D1, id_producto)

registrar_compra_ingrediente(D, id_ingrediente, cantidad) ==
    IF id_ingrediente \notin DOMAIN D.ingredientes THEN D
    ELSE [D EXCEPT !.ingredientes[id_ingrediente].cantidad_stock = @ + cantidad]

-----------------------------------------------------------------------------
(* Id compaction.                                                          *)

\* the UPDATE of the references to one re-inserted row, row after row
RECURSIVE ActualizarReferencias(_, _, _, _)
ActualizarReferencias(rec, table, registros, idx) ==
    IF idx > Len(registros) THEN rec
    ELSE LET old_id == registros[idx]
             rec1 == IF table = "productos"
                     THEN [r \in DOMAIN rec |->
                              IF rec[r].id_producto = old_id
                              THEN [rec[r] EXCEPT !.id_producto = idx]
                              ELSE rec[r]]
                     ELSE IF table = "ingredientes"
                     THEN [r \in DOMAIN rec |->
                              IF rec[r].id_ingrediente = old_id
                              THEN [rec[r] EXCEPT !.id_ingrediente = idx]
                              ELSE rec[r]]
                     ELSE rec
         IN  ActualizarReferencias(rec1, table, registros, idx + 1)

\* reorganize_ids re-inserting the rows under their new ids without the
\* UPDATE of the references to them
reorganize_ids_sin_referencias(D, table) ==
    IF ~TieneActivo(table) THEN Raise(D, "OperationalError")
    ELSE LET t == D[table]
             registros == SortedIds({k \in DOMAIN t : t[k].activo = 1})
             reinsertados == [idx \in 1..Len(registros) |-> t[registros[idx]]]
         IN  Ok([D EXCEPT ![table] = reinsertados])

\* SELECT ... WHERE activo = 1 fails on a table without that column, before
\* anything is deleted
reorganize_ids(D, table) ==
    IF ~TieneActivo(table) THEN Raise(D, "OperationalError")
    ELSE LET t == D[table]
             registros == SortedIds({k \in DOMAIN t : t[k].activo = 1})
             reinsertados == [idx \in 1..Len(registros) |-> t[registros[idx]]]
         IN  Ok([[D EXCEPT ![table] = reinsertados]
                    EXCEPT !.recetas =
                        ActualizarReferencias(D.recetas, table, registros, 1)])

-----------------------------------------------------------------------------
(* Productos.                                                              *)

\* kwargs applied to a row: UPDATE ... SET k = v for every k of kwargs
ApplyKwargs(row, kwargs) ==
    [f \in DOMAIN row |-> IF f \in DOMAIN kwargs THEN kwargs[f] ELSE row[f]]

add_producto(D, id_producto, precio, costo, gestion_stock, stock_estimado) ==
    IF id_exists(D.productos, id_producto) THEN Raise(D, "ValueError")
    ELSE LET ganancia == precio - costo IN
         Ok([D EXCEPT !.productos = Put(@, id_producto,
                [precio_unitario |-> precio, costo |-> costo,
                 ganancia |-> ganancia, stock_estimado |-> stock_estimado,
                 gestion_stock |-> IF gestion_stock THEN 1 ELSE 0,
                 activo |-> 1])])

\* update_producto re-pointing the recipe lines before it checks the new id
update_producto_referencias_antes(D, old_id, new_id, kwargs) ==
    LET cambia == new_id # NoId /\ new_id # old_id
        D1 == IF cambia
              THEN [D EXCEPT !.recetas = [r \in DOMAIN @ |->
                       IF @[r].id_producto = old_id
                       THEN [@[r] EXCEPT !.id_producto = new_id] ELSE @[r]]]
              ELSE D
        recalcula == "precio_unitario" \in DOMAIN kwargs \/ "costo" \in DOMAIN kwargs
    IN  IF cambia /\ id_exists(D.productos, new_id) THEN Raise(D1, "ValueError")
        ELSE IF recalcula /\ old_id \notin DOMAIN D1.productos THEN Raise(D1, "TypeError")
        ELSE IF ~cambia /\ DOMAIN kwargs = {} THEN Ok(D1)
        ELSE IF old_id \notin DOMAIN D1.productos THEN Ok(D1)
        ELSE
        LET producto == D1.productos[old_id]
            precio == IF "precio_unitario" \in DOMAIN kwargs
                      THEN kwargs.precio_unitario ELSE producto.precio_unitario
            costo == IF "costo" \in DOMAIN kwargs
                     THEN kwargs.costo ELSE producto.costo
            kwargs2 == IF recalcula
                       THEN [f \in (DOMAIN kwargs) \cup {"ganancia"} |->
                                IF f = "ganancia" THEN precio - costo ELSE kwargs[f]]
                       ELSE kwargs
        IN  Ok([D1 EXCEPT !.productos =
                   Put(Drop(@, old_id), IF cambia THEN new_id ELSE old_id,
                       ApplyKwargs(producto, kwargs2))])

update_producto(D, old_id, new_id, kwargs) ==
    LET cambia == new_id # NoId /\ new_id # old_id IN
    IF cambia /\ id_exists(D.productos, new_id) THEN Raise(D, "ValueError")
    ELSE
    LET D1 == IF cambia
              THEN [D EXCEPT !.recetas = [r \in DOMAIN @ |->
                       IF @[r].id_producto = old_id
                       THEN [@[r] EXCEPT !.id_producto = new_id] ELSE @[r]]]
              ELSE D
        recalcula == "precio_unitario" \in DOMAIN kwargs \/ "costo" \in DOMAIN kwargs
    IN  \* producto is None: producto['precio_unitario'] raises TypeError
        IF recalcula /\ old_id \notin DOMAIN D1.productos THEN Raise(D1, "TypeError")
        ELSE IF ~cambia /\ DOMAIN kwargs = {} THEN Ok(D1)
        ELSE IF old_id \notin DOMAIN D1.productos THEN Ok(D1)
        ELSE
        LET producto == D1.productos[old_id]
            precio == IF "precio_unitario" \in DOMAIN kwargs
                      THEN kwargs.precio_unitario ELSE producto.precio_unitario
            costo == IF "costo" \in DOMAIN kwargs
                     THEN kwargs.costo ELSE producto.costo
            kwargs2 == IF recalcula
                       THEN [f \in (DOMAIN kwargs) \cup {"ganancia"} |->
                                IF f = "ganancia" THEN precio - costo ELSE kwargs[f]]
                       ELSE kwargs
        IN  Ok([D1 EXCEPT !.productos =
                   Put(Drop(@, old_id), IF cambia THEN new_id ELSE old_id,
                       ApplyKwargs(producto, kwargs2))])

delete_producto(D, id_producto) ==
    LET D1 == IF id_producto \in DOMAIN D.productos
              THEN [D EXCEPT !.productos[id_producto].activo = 0] ELSE D
    IN  reorganize_ids(D1, "productos")

get_next_producto_id(D) ==
    IF DOMAIN D.productos = {} THEN 1
    ELSE (CHOOSE m \in DOMAIN D.productos : \A k \in DOMAIN D.productos : k <= m) + 1

-----------------------------------------------------------------------------
(* Ingredientes.                                                           *)

add_ingrediente(D, id_ingrediente, costo_unitario, cantidad) ==
    IF id_exists(D.ingredientes, id_ingrediente) THEN Raise(D, "ValueError")
    ELSE Ok([D EXCEPT !.ingredientes = Put(@, id_ingrediente,
                [costo_unitario |-> costo_unitario, cantidad_stock |-> cantidad,
                 activo |-> 1])])

update_ingrediente(D, old_id, new_id, kwargs) ==
    LET cambia == new_id # NoId /\ new_id # old_id IN
    IF cambia /\ id_exists(D.ingredientes, new_id) THEN Raise(D, "ValueError")
    ELSE
    LET D1 == IF cambia
              THEN [D EXCEPT !.recetas = [r \in DOMAIN @ |->
                       IF @[r].id_ingrediente = old_id
                       THEN [@[r] EXCEPT !.id_ingrediente = new_id] ELSE @[r]]]
              ELSE D
    IN  IF ~cambia /\ DOMAIN kwargs = {} THEN Ok(D1)
        ELSE IF old_id \notin DOMAIN D1.ingredientes THEN Ok(D1)
        ELSE Ok([D1 EXCEPT !.ingredientes =
                    Put(Drop(@, old_id), IF cambia THEN new_id ELSE old_id,
                        ApplyKwargs(D1.ingredientes[old_id], kwargs))])

delete_ingrediente(D, id_ingrediente) ==
    LET D1 == IF id_ingrediente \in DOMAIN D.ingredientes
              THEN [D EXCEPT !.ingredientes[id_ingrediente].activo = 0] ELSE D
    IN  reorganize_ids(D1, "ingredientes")

-----------------------------------------------------------------------------
(* Recetas.                                                                *)

\* the rows get_receta returns ({} for None): the line joined to its product
\* and its ingredient, whatever their activo flag
get_receta(D, id_receta) ==
    {r \in {id_receta} \cap DOMAIN D.recetas :
        /\ D.recetas[r].id_producto \in DOMAIN D.productos
        /\ D.recetas[r].id_ingrediente \in DOMAIN D.ingredientes}

add_receta(D, id_receta, id_producto, id_ingrediente, cantidad) ==
    IF id_exists(D.recetas, id_receta) THEN Raise(D, "ValueError")
    ELSE LET D1 == [D EXCEPT !.recetas = Put(@, id_receta,
                       [id_producto |-> id_producto,
                        id_ingrediente |-> id_ingrediente,
                        cantidad_requerida |-> cantidad])]
         IN  Ok(recalcular_costo_producto(D1, id_producto))

update_receta(D, old_id, new_id, kwargs) ==
    LET cambia == new_id # NoId /\ new_id # old_id IN
    IF cambia /\ id_exists(D.recetas, new_id) THEN Raise(D, "ValueError")
    ELSE
    LET D1 == IF (cambia \/ DOMAIN kwargs # {}) /\ old_id \in DOMAIN D.recetas
              THEN [D EXCEPT !.recetas =
                       Put(Drop(@, old_id), IF cambia THEN new_id ELSE old_id,
                           ApplyKwargs(D.recetas[old_id], kwargs))]
              ELSE D
        buscada == IF new_id # NoId THEN new_id ELSE old_id
        receta == get_receta(D1, buscada)
    IN  IF receta # {}
        THEN Ok(recalcular_costo_producto(D1, D1.recetas[buscada].id_producto))
        ELSE Ok(D1)

delete_receta(D, id_receta) ==
    LET receta == get_receta(D, id_receta)
        D1 == [D EXCEPT !.recetas = Drop(@, id_receta)]
        reorganizada == reorganize_ids(D1, "recetas")
    IN  IF ~reorganizada.ok THEN reorganizada
        ELSE IF receta # {}
        THEN Ok(recalcular_costo_producto(reorganizada.db,
                                          D.recetas[id_receta].id_producto))
        ELSE reorganizada

-----------------------------------------------------------------------------
(* The state machine: one action per public operation.                     *)

\* the operation completes (or raises) and its effects become the state
Apply(res, op, id, arg) ==
    /\ nops' = nops + 1
    /\ productos' = res.db.productos
    /\ ingredientes' = res.db.ingredientes
    /\ recetas' = res.db.recetas
    /\ lastOp' = [op |-> op, id |-> id, arg |-> arg, ok |-> res.ok, exc |-> res.exc]

Init ==
    /\ productos = EmptyTable
    /\ ingredientes = EmptyTable
    /\ recetas = EmptyTable
    /\ lastOp = [op |-> "init", id |-> NoId, arg |-> 0, ok |-> TRUE, exc |-> "none"]
    /\ nops = 0

\* keyword arguments: the partial records over the given values
Kwargs(campos, valores) ==
    {[f \in S |-> v[f]] : S \in SUBSET campos, v \in valores}

CamposReceta == {"id_producto", "id_ingrediente", "cantidad_requerida"}

KwProducto ==
    Kwargs({"precio_unitario", "costo"}, [precio_unitario : Precios, costo : Costos])

KwIngrediente ==
    Kwargs({"costo_unitario"}, [costo_unitario : CostosUnitarios])

\* at most one column of the line, among campos, changes in one call
KwReceta(campos, cantidades) ==
    {kw \in Kwargs(campos,
                   [id_producto : Ids, id_ingrediente : Ids,
                    cantidad_requerida : cantidades]) :
        Cardinality(DOMAIN kw) <= 1}

AddProducto(precios, gestiones) ==
    \E id \in Ids, precio \in precios, costo \in Costos, gestion \in gestiones :
        /\ nops < MaxOps
        /\ Apply(add_producto(DB, id, precio, costo, gestion, 0), "add_producto", id, 0)

UpdateProducto ==
    \E old_id \in Ids, new_id \in {NoId} \cup Ids, kwargs \in KwProducto :
        /\ nops < MaxOps
        /\ Apply(update_producto(DB, old_id, new_id, kwargs),
                 "update_producto", old_id, new_id)

DeleteProducto ==
    \E id \in Ids :
        /\ nops < MaxOps
        /\ Apply(delete_producto(DB, id), "delete_producto", id, 0)

AddIngrediente(costos, cantidades) ==
    \E id \in Ids, cu \in costos, cantidad \in cantidades :
        /\ nops < MaxOps
        /\ Apply(add_ingrediente(DB, id, cu, cantidad), "add_ingrediente", id, 0)

UpdateIngrediente ==
    \E old_id \in Ids, new_id \in {NoId} \cup Ids, kwargs \in KwIngrediente :
        /\ nops < MaxOps
        /\ Apply(update_ingrediente(DB, old_id, new_id, kwargs),
                 "update_ingrediente", old_id, new_id)

DeleteIngrediente ==
    \E id \in Ids :
        /\ nops < MaxOps
        /\ Apply(delete_ingrediente(DB, id), "delete_ingrediente", id, 0)

RegistrarCompra ==
    \E id \in Ids, cantidad \in Compras :
        /\ nops < MaxOps
        /\ id \in DOMAIN ingredientes =>
               ingredientes[id].cantidad_stock + cantidad <= MaxStock
        /\ Apply(Ok(registrar_compra_ingrediente(DB, id, cantidad)),
                 "registrar_compra_ingrediente", id, cantidad)

AddReceta(cantidades) ==
    \E id \in Ids, p \in Ids, i \in Ids, cantidad \in cantidades :
        /\ nops < MaxOps
        /\ Apply(add_receta(DB, id, p, i, cantidad), "add_receta", id, p)

UpdateReceta(nuevos, campos, cantidades) ==
    \E old_id \in Ids, new_id \in nuevos, kwargs \in KwReceta(campos, cantidades) :
        /\ nops < MaxOps
        /\ Apply(update_receta(DB, old_id, new_id, kwargs),
                 "update_receta", old_id, new_id)

DeleteReceta ==
    \E id \in Ids :
        /\ nops < MaxOps
        /\ Apply(delete_receta(DB, id), "delete_receta", id, 0)

RecalcularCosto ==
    \E p \in Ids :
        /\ nops < MaxOps
        /\ Apply(Ok(recalcular_costo_producto(DB, p)), "recalcular_costo_producto", p, 0)

ActualizarStock ==
    \E p \in Ids :
        /\ nops < MaxOps
        /\ Apply(Ok(actualizar_stock_estimado(DB, p)), "actualizar_stock_estimado", p, 0)

ActualizarTodos ==
    /\ nops < MaxOps
    /\ Apply(Ok(actualizar_todos_stocks_estimados(DB)),
             "actualizar_todos_stocks_estimados", NoId, 0)

DescontarInventario ==
    \E p \in Ids, n \in 1..MaxVendida :
        LET D2 == descontar_inventario_por_venta(DB, p, n) IN
        /\ nops < MaxOps
        /\ \A i \in DOMAIN D2.ingredientes :
               D2.ingredientes[i].cantidad_stock >= 0 - MaxDeuda
        /\ Apply(Ok(D2), "descontar_inventario_por_venta", p, n)

\* The whole interface.  The properties are checked under its two restrictions
\* below, which keep apart the columns the other one writes.
Next ==
    \/ AddProducto(Precios, BOOLEAN)
    \/ UpdateProducto
    \/ DeleteProducto
    \/ AddIngrediente(CostosUnitarios, StocksIniciales)
    \/ UpdateIngrediente
    \/ DeleteIngrediente
    \/ RegistrarCompra
    \/ AddReceta(Cantidades)
    \/ UpdateReceta({NoId} \cup Ids, CamposReceta, Cantidades)
    \/ DeleteReceta
    \/ RecalcularCosto
    \/ ActualizarStock
    \/ ActualizarTodos
    \/ DescontarInventario

Spec == Init /\ [][Next]_vars

\* Cost propagation: the operations that write a price, a cost or a recipe
\* line; stocks stay as inserted.
NextCosto ==
    \/ AddProducto(Precios, {FALSE})
    \/ UpdateProducto
    \/ DeleteProducto
    \/ AddIngrediente(CostosUnitarios, {0})
    \/ UpdateIngrediente
    \/ DeleteIngrediente
    \/ AddReceta(Cantidades)
    \/ UpdateReceta({NoId} \cup Ids, CamposReceta, Cantidades)
    \/ DeleteReceta
    \/ RecalcularCosto

SpecCosto == Init /\ [][NextCosto]_vars

\* Stock estimation and sale-driven deduction: the operations that write a
\* stock, an estimate or a recipe line; prices and unit costs stay as inserted.
NextStock ==
    \/ AddProducto({5}, BOOLEAN)
    \/ AddIngrediente({1}, StocksIniciales)
    \/ AddReceta(CantidadesStock)
    \/ UpdateReceta({NoId}, {"id_ingrediente", "cantidad_requerida"}, CantidadesStock)
    \/ RegistrarCompra
    \/ DescontarInventario
    \/ ActualizarStock
    \/ ActualizarTodos
    \/ RecalcularCosto

SpecStock == Init /\ [][NextStock]_vars

\* Identifier lifecycle: the operations that check, change or compact ids and
\* the references to them; one price, one unit cost and one quantity are
\* inserted.
NextIds ==
    \/ AddProducto({5}, {FALSE})
    \/ UpdateProducto
    \/ DeleteProducto
    \/ AddIngrediente({1}, {0})
    \/ UpdateIngrediente
    \/ DeleteIngrediente
    \/ AddReceta({1})
    \/ UpdateReceta({NoId} \cup Ids, {"id_producto", "id_ingrediente"}, {1})
    \/ DeleteReceta

SpecIds == Init /\ [][NextIds]_vars

\* A caller that keeps the references whole: it inserts a recipe line only
\* for a stored product and a stored ingredient, and creates products under a
\* free id of its choice or under get_next_producto_id().
AddProductoSiguiente ==
    /\ nops < MaxOps
    /\ Apply(add_producto(DB, get_next_producto_id(DB), 5, 1, FALSE, 0),
             "add_producto", get_next_producto_id(DB), 0)

AddRecetaReferida ==
    \E id \in Ids, p \in DOMAIN productos, i \in DOMAIN ingredientes :
        /\ nops < MaxOps
        /\ Apply(add_receta(DB, id, p, i, 1), "add_receta", id, p)

NextReferida ==
    \/ AddProducto({5}, {FALSE})
    \/ AddProductoSiguiente
    \/ AddIngrediente({1}, {0})
    \/ AddRecetaReferida
    \/ DeleteProducto
    \/ DeleteIngrediente

SpecReferida == Init /\ [][NextReferida]_vars

\* The Taco scenario: product 1 (Taco), ingredient 1 (Tortilla) and ingredient
\* 2 (Carne), recipe lines 1 and 2.  Money is counted in halves (0.5 is 1) and
\* Carne in tenths of a kilogram (0.1 kg is 1), so that every quantity of the
\* scenario is an integer: Tortilla costs 1 and has 100 in stock, Carne costs
\* 4 a tenth (20 a kilogram) and has 50 tenths (5 kg) in stock; a Taco takes
\* 2 Tortillas and 1 tenth of Carne.
TacoIngredientes ==
    <<[costo_unitario |-> 1, cantidad |-> 100],
      [costo_unitario |-> 4, cantidad |-> 50]>>

TacoLineas ==
    <<[id_ingrediente |-> 1, cantidad |-> 2],
      [id_ingrediente |-> 2, cantidad |-> 1]>>

TacoVentas == {1, 10}

TacoAddProducto ==
    /\ nops < MaxOps + 3
    /\ Apply(add_producto(DB, 1, 20, 0, TRUE, 0), "add_producto", 1, 0)

TacoAddIngrediente ==
    \E i \in DOMAIN TacoIngredientes :
        /\ nops < MaxOps + 3
        /\ Apply(add_ingrediente(DB, i, TacoIngredientes[i].costo_unitario,
                                 TacoIngredientes[i].cantidad),
                 "add_ingrediente", i, 0)

TacoAddReceta ==
    \E r \in DOMAIN TacoLineas :
        /\ nops < MaxOps + 3
        /\ Apply(add_receta(DB, r, 1, TacoLineas[r].id_ingrediente,
                            TacoLineas[r].cantidad),
                 "add_receta", r, 1)

TacoVenta ==
    \E n \in TacoVentas :
        /\ nops < MaxOps + 3
        /\ Apply(Ok(descontar_inventario_por_venta(DB, 1, n)),
                 "descontar_inventario_por_venta", 1, n)

\* the calls of the scenario, in any order and any number of times
NextTaco ==
    \/ TacoAddProducto
    \/ TacoAddIngrediente
    \/ TacoAddReceta
    \/ TacoVenta

SpecTaco == Init /\ [][NextTaco]_vars

-----------------------------------------------------------------------------
(* What the properties below speak of, stated on the tables themselves.    *)

\* the lines of the recipe table rec of product p whose ingredient is a live
\* row of the ingredient table ing
LineasVisiblesEn(rec, ing, p) ==
    {r \in DOMAIN rec :
        /\ rec[r].id_producto = p
        /\ \E i \in DOMAIN ing : i = rec[r].id_ingrediente /\ ing[i].activo = 1}

\* the sum over those lines of cantidad_requerida x costo_unitario
CostoEsperadoEn(rec, ing, p) ==
    SumOver(LineasVisiblesEn(rec, ing, p), [r \in LineasVisiblesEn(rec, ing, p) |->
        rec[r].cantidad_requerida * ing[rec[r].id_ingrediente].costo_unitario])

LineasVisibles(p) == LineasVisiblesEn(recetas, ingredientes, p)

CostoEsperado(p) == CostoEsperadoEn(recetas, ingredientes, p)

\* C1: after recalcular_costo_producto(P) on a product P with a non-empty
\* recipe graph, P.costo is the sum over the visible lines of
\* cantidad_requerida x costo_unitario and P.ganancia is precio_unitario - costo.
C1_CostoRecalculado ==
    (/\ lastOp.op = "recalcular_costo_producto"
     /\ lastOp.id \in DOMAIN productos
     /\ LineasVisibles(lastOp.id) # {})
    => /\ productos[lastOp.id].costo = CostoEsperado(lastOp.id)
       /\ productos[lastOp.id].ganancia =
              productos[lastOp.id].precio_unitario - productos[lastOp.id].costo

\* recalcular_costo_producto has just run on a product with two visible lines
\* and a cost that is neither the inserted one nor a single line's
C1_Witness ==
    /\ lastOp.op = "recalcular_costo_producto"
    /\ lastOp.id \in DOMAIN productos
    /\ Cardinality(LineasVisibles(lastOp.id)) = 2
    /\ productos[lastOp.id].costo = 6

\* floor(min over the visible lines of stock / cantidad_requerida): the floor
\* of the least quotient is the least of the floors, and \div is the floor
PisoDelMinimo(p) ==
    SetMin({ingredientes[recetas[r].id_ingrediente].cantidad_stock
                \div recetas[r].cantidad_requerida : r \in LineasVisibles(p)})

\* C2: for a product all of whose recipe lines require a positive quantity,
\* whatever the ingredient stocks (negative ones included),
\* calcular_stock_estimado is the mathematical floor of the least capacity.
C2_EstimadoEsPiso ==
    \A p \in DOMAIN productos :
        (/\ LineasVisibles(p) # {}
         /\ \A r \in LineasVisibles(p) : recetas[r].cantidad_requerida > 0)
        => calcular_stock_estimado(DB, p) = PisoDelMinimo(p)

\* what P's visible lines on ingredient i require for one unit of P
RequeridoDe(p, i) ==
    LET sobre == {r \in LineasVisibles(p) : recetas[r].id_ingrediente = i}
    IN  SumOver(sobre, [r \in sobre |-> recetas[r].cantidad_requerida])

\* C3: descontar_inventario_por_venta(P, n), n > 0, takes cantidad_requerida x n
\* off the ingredient of every line of P, with no floor at zero (an ingredient
\* of several lines loses the amount of each), and leaves the ingredients P
\* does not use, and every other column, as they were.
C3_DescuentoExacto ==
    [][lastOp'.op = "descontar_inventario_por_venta"
       => /\ lastOp'.arg > 0
          /\ DOMAIN ingredientes' = DOMAIN ingredientes
          /\ \A i \in DOMAIN ingredientes :
                ingredientes'[i] =
                    [ingredientes[i] EXCEPT !.cantidad_stock =
                        @ - RequeridoDe(lastOp'.id, i) * lastOp'.arg]]_vars

\* a sale of more than one unit has just driven a used ingredient below zero
C3_Witness ==
    /\ lastOp.op = "descontar_inventario_por_venta"
    /\ lastOp.arg > 1
    /\ \E r \in LineasVisibles(lastOp.id) :
           /\ recetas[r].cantidad_requerida > 1
           /\ ingredientes[recetas[r].id_ingrediente].cantidad_stock < 0

\* C4: when descontar_inventario_por_venta(P, n) returns, the stored
\* P.stock_estimado is calcular_stock_estimado(P) of the stocks the sale left.
C4_EstimadoTrasVenta ==
    (lastOp.op = "descontar_inventario_por_venta" /\ lastOp.id \in DOMAIN productos)
    => productos[lastOp.id].stock_estimado = calcular_stock_estimado(DB, lastOp.id)

\* a sale has just left its product with a positive estimate
C4_Witness ==
    /\ lastOp.op = "descontar_inventario_por_venta"
    /\ lastOp.id \in DOMAIN productos
    /\ LineasVisibles(lastOp.id) # {}
    /\ productos[lastOp.id].stock_estimado > 0

\* C5: for a product without visible recipe lines calcular_stock_estimado is 0
\* and recalcular_costo_producto writes nothing: costo and ganancia keep their
\* stored values.
C5_SinReceta ==
    [][/\ \A p \in Ids :
              LineasVisiblesEn(recetas', ingredientes', p) = {}
              => calcular_stock_estimado(DB', p) = 0
       /\ (lastOp'.op = "recalcular_costo_producto"
              /\ LineasVisibles(lastOp'.id) = {})
          => productos' = productos]_vars

\* recalcular_costo_producto has just run on a product whose only line has no
\* ingredient row, and the inserted cost is still there
C5_Witness ==
    /\ lastOp.op = "recalcular_costo_producto"
    /\ lastOp.id \in DOMAIN productos
    /\ LineasVisibles(lastOp.id) = {}
    /\ \E r \in DOMAIN recetas : recetas[r].id_producto = lastOp.id
    /\ productos[lastOp.id].costo \in Costos
    /\ calcular_stock_estimado(DB, lastOp.id) = 0

\* C6: every stored product has ganancia = precio_unitario - costo.
C6_Ganancia ==
    \A p \in DOMAIN productos :
        productos[p].ganancia = productos[p].precio_unitario - productos[p].costo

\* update_producto has just repriced a product whose cost came from its recipe
C6_Witness ==
    /\ lastOp.op = "update_producto"
    /\ lastOp.ok
    /\ \E p \in DOMAIN productos :
           /\ LineasVisibles(p) # {}
           /\ productos[p].costo = CostoEsperado(p)
           /\ productos[p].costo \notin Costos
           /\ productos[p].precio_unitario = 7

\* every product with a visible recipe line has the cost of its lines
CostosAlDia ==
    \A p \in DOMAIN productos :
        LineasVisibles(p) # {} => productos[p].costo = CostoEsperado(p)

\* C7: no add_receta or update_receta call (whatever column of the line it
\* changes) leaves a product with visible lines whose costo is not the sum
\* over its current lines, when none was before the call.
C7_CostoFuncionDeReceta ==
    [][(CostosAlDia /\ lastOp'.op \in {"add_receta", "update_receta"})
       => CostosAlDia']_vars

\* C8: delete_receta of an existing line returns normally, the line is gone,
\* and its product, if it still has visible lines, has the cost of the
\* remaining ones and ganancia = precio_unitario - costo.
C8_BorradoRecalcula ==
    [][(/\ lastOp'.op = "delete_receta"
        /\ lastOp'.id \in DOMAIN recetas
        /\ recetas[lastOp'.id].id_producto \in DOMAIN productos
        /\ lastOp'.id \in LineasVisibles(recetas[lastOp'.id].id_producto))
       => LET p == recetas[lastOp'.id].id_producto IN
          /\ lastOp'.ok
          /\ Cardinality(DOMAIN recetas') = Cardinality(DOMAIN recetas) - 1
          /\ (p \in DOMAIN productos'
                 /\ LineasVisiblesEn(recetas', ingredientes', p) # {})
             => /\ productos'[p].costo = CostoEsperadoEn(recetas', ingredientes', p)
                /\ productos'[p].ganancia =
                       productos'[p].precio_unitario - productos'[p].costo]_vars

\* every active stock-managed product stores the estimate of the current state
EstimadosAlDia ==
    \A p \in DOMAIN productos :
        (productos[p].activo = 1 /\ productos[p].gestion_stock = 1)
        => productos[p].stock_estimado = calcular_stock_estimado(DB, p)

\* C9: no completed add_receta, update_receta, registrar_compra_ingrediente or
\* descontar_inventario_por_venta leaves an active stock-managed product whose
\* stored stock_estimado is not its estimate, when none was stale before.
C9_SinVentanaObsoleta ==
    [][(/\ EstimadosAlDia
        /\ lastOp'.ok
        /\ lastOp'.op \in {"add_receta", "update_receta",
                           "registrar_compra_ingrediente",
                           "descontar_inventario_por_venta"})
       => EstimadosAlDia']_vars

\* C10: after delete_ingrediente(I) no recipe line of a stored product that
\* referenced I is returned by get_recetas_producto, for any product.
C10_LineaRetirada ==
    [][(lastOp'.op = "delete_ingrediente" /\ lastOp'.id \in DOMAIN ingredientes)
       => \A r \in DOMAIN recetas :
              (/\ recetas[r].id_ingrediente = lastOp'.id
               /\ recetas[r].id_producto \in DOMAIN productos)
              => \A p \in Ids :
                     r \notin LineasVisiblesEn(recetas', ingredientes', p)]_vars

\* the recipe graph of product p in the tables rec and ing: how many visible
\* lines carry each pair (ingredient, quantity)
GrafoEn(rec, ing, p) ==
    LET lineas == LineasVisiblesEn(rec, ing, p)
        par(r) == <<rec[r].id_ingrediente, rec[r].cantidad_requerida>>
    IN  [x \in {par(r) : r \in lineas} |-> Cardinality({r \in lineas : par(r) = x})]

\* the id the row k of table t has once the row d is gone and the ids are
\* compacted: its rank among the remaining rows
NuevoId(t, d, k) == Cardinality({j \in DOMAIN t \ {d} : j <= k})

\* C11: after delete_producto(D) no recipe line that referenced D is returned
\* by get_recetas_producto for a remaining product id, and every surviving
\* product has the recipe graph (ingredient and quantity, with multiplicity)
\* it had before the deletion.
C11_LineasDelBorrado ==
    [][(lastOp'.op = "delete_producto" /\ lastOp'.id \in DOMAIN productos)
       => LET d == lastOp'.id IN
          /\ \A r \in DOMAIN recetas :
                recetas[r].id_producto = d
                => \A p \in DOMAIN productos' :
                       r \notin LineasVisiblesEn(recetas', ingredientes', p)
          /\ \A k \in DOMAIN productos \ {d} :
                GrafoEn(recetas', ingredientes', NuevoId(productos, d, k))
                    = GrafoEn(recetas, ingredientes, k)]_vars

\* the call the step makes is given an id that its table already holds: an
\* add_* with a stored id, an update_* with a stored new_id other than old_id
ConflictoDeId ==
    \/ lastOp'.op = "add_producto" /\ lastOp'.id \in DOMAIN productos
    \/ lastOp'.op = "add_ingrediente" /\ lastOp'.id \in DOMAIN ingredientes
    \/ lastOp'.op = "add_receta" /\ lastOp'.id \in DOMAIN recetas
    \/ /\ lastOp'.op = "update_producto"
       /\ lastOp'.arg # lastOp'.id /\ lastOp'.arg \in DOMAIN productos
    \/ /\ lastOp'.op = "update_ingrediente"
       /\ lastOp'.arg # lastOp'.id /\ lastOp'.arg \in DOMAIN ingredientes
    \/ /\ lastOp'.op = "update_receta"
       /\ lastOp'.arg # lastOp'.id /\ lastOp'.arg \in DOMAIN recetas

\* C12: an add_* called with an id its table holds, and an update_* called
\* with a new_id (other than old_id) its table holds, raise ValueError and
\* leave every table, the references of the recipe lines included, unchanged.
C12_ConflictoSinEscritura ==
    [][ConflictoDeId
       => /\ lastOp'.exc = "ValueError"
          /\ productos' = productos
          /\ ingredientes' = ingredientes
          /\ recetas' = recetas]_vars

\* update_producto has just refused a new id that is taken, for a product
\* that recipe lines reference
C12_Witness ==
    /\ lastOp.op = "update_producto"
    /\ lastOp.exc = "ValueError"
    /\ lastOp.arg \in DOMAIN productos
    /\ lastOp.id \in DOMAIN productos
    /\ \E r \in DOMAIN recetas : recetas[r].id_producto = lastOp.id

\* C13: recalcular_costo_producto(P) called again right after
\* recalcular_costo_producto(P), nothing written in between, leaves P.costo
\* and P.ganancia as the first call left them.
C13_RecalculoIdempotente ==
    [][(/\ lastOp.op = "recalcular_costo_producto"
        /\ lastOp'.op = "recalcular_costo_producto"
        /\ lastOp'.id = lastOp.id
        /\ lastOp.id \in DOMAIN productos)
       => /\ lastOp.id \in DOMAIN productos'
          /\ productos'[lastOp.id].costo = productos[lastOp.id].costo
          /\ productos'[lastOp.id].ganancia = productos[lastOp.id].ganancia]_vars

\* a first recalcular_costo_producto has just left a product with the cost of
\* its recipe, other than the inserted one, and a further call can follow
C13_Witness ==
    /\ lastOp.op = "recalcular_costo_producto"
    /\ lastOp.id \in DOMAIN productos
    /\ LineasVisibles(lastOp.id) # {}
    /\ productos[lastOp.id].costo = CostoEsperado(lastOp.id)
    /\ productos[lastOp.id].costo \notin Costos
    /\ nops < MaxOps

\* the Taco, its two ingredients with the stocks of the scenario and its two
\* recipe lines are stored
TacoListo ==
    /\ 1 \in DOMAIN productos
    /\ DOMAIN ingredientes = {1, 2}
    /\ ingredientes[1].cantidad_stock = 100
    /\ ingredientes[2].cantidad_stock = 50
    /\ DOMAIN recetas = {1, 2}

\* C14: once the recipe insertion has completed the Taco (Tortilla 2 a unit,
\* stock 100, unit cost 0.5; Carne 0.1 a unit, stock 5, unit cost 20) its cost
\* is 3.0 (6 halves) and its estimated stock 50; from there
\* descontar_inventario_por_venta(Taco, 10) leaves Tortilla at 80, Carne at 4
\* (40 tenths) and the stored estimate at 40.
C14_Taco ==
    [][/\ (lastOp'.op = "add_receta" /\ lastOp'.ok /\ TacoListo')
          => /\ productos'[1].costo = 6
             /\ productos'[1].ganancia = productos'[1].precio_unitario - 6
             /\ calcular_stock_estimado(DB', 1) = 50
       /\ (/\ lastOp'.op = "descontar_inventario_por_venta"
           /\ lastOp'.arg = 10
           /\ TacoListo)
          => /\ ingredientes'[1].cantidad_stock = 80
             /\ ingredientes'[2].cantidad_stock = 40
             /\ productos'[1].stock_estimado = 40]_vars

\* ten Tacos have just been sold from the complete scenario
C14_Witness ==
    /\ lastOp.op = "descontar_inventario_por_venta"
    /\ lastOp.arg = 10
    /\ 1 \in DOMAIN productos
    /\ productos[1].costo = 6
    /\ productos[1].stock_estimado = 40
    /\ DOMAIN recetas = {1, 2}
    /\ DOMAIN ingredientes = {1, 2}
    /\ ingredientes[1].cantidad_stock = 80
    /\ ingredientes[2].cantidad_stock = 40

\* the products actualizar_todos_stocks_estimados selects
Gestionados ==
    {p \in DOMAIN productos :
        productos[p].activo = 1 /\ productos[p].gestion_stock = 1}

\* every order in which the rows of S can be visited
Ordenes(S) ==
    {o \in [1..Cardinality(S) -> S] : \A x \in S : \E k \in DOMAIN o : o[k] = x}

\* C15: actualizar_todos_stocks_estimados gives every active product with
\* gestion_stock the estimate calcular_stock_estimado computes for it, leaves
\* every other product row, every ingredient and every cost as they were, and
\* visiting the selected products in any order gives the same table.
C15_TodosLosEstimados ==
    [][lastOp'.op = "actualizar_todos_stocks_estimados"
       => /\ DOMAIN productos' = DOMAIN productos
          /\ \A p \in DOMAIN productos :
                productos'[p] =
                    IF p \in Gestionados
                    THEN [productos[p] EXCEPT
                             !.stock_estimado = calcular_stock_estimado(DB, p)]
                    ELSE productos[p]
          /\ ingredientes' = ingredientes
          /\ recetas' = recetas
          /\ \A o \in Ordenes(Gestionados) :
                ActualizarCadaUno(DB, o).productos = productos']_vars

\* actualizar_todos_stocks_estimados has just given a managed product a
\* positive estimate, another product being stored
C15_Witness ==
    /\ lastOp.op = "actualizar_todos_stocks_estimados"
    /\ Cardinality(DOMAIN productos) = 2
    /\ \E p \in Gestionados : productos[p].stock_estimado > 0

\* the step inserts a recipe line for product p, or updates a line that is
\* one of p's when the call is made
TocaRecetaDe(p) ==
    \/ /\ lastOp'.op = "add_receta"
       /\ lastOp'.ok
       /\ lastOp'.arg = p
    \/ /\ lastOp'.op = "update_receta"
       /\ lastOp'.ok
       /\ lastOp'.id \in DOMAIN recetas
       /\ recetas[lastOp'.id].id_producto = p

\* update_ingrediente leaves costo and ganancia of every product as they were
IngredienteNoPropaga ==
    [][lastOp'.op = "update_ingrediente"
       => /\ DOMAIN productos' = DOMAIN productos
          /\ \A p \in DOMAIN productos :
                /\ productos'[p].costo = productos[p].costo
                /\ productos'[p].ganancia = productos[p].ganancia]_vars

\* C16: update_ingrediente (a new costo_unitario included) leaves costo and
\* ganancia of every product unchanged, and when a recipe line of a product
\* with visible lines is inserted or updated, the product's cost becomes the
\* sum over its lines priced with the current unit costs.
C16_CostoObsoletoHastaTocar ==
    /\ IngredienteNoPropaga
    /\ [][\A p \in DOMAIN productos' :
             (TocaRecetaDe(p) /\ LineasVisiblesEn(recetas', ingredientes', p) # {})
             => productos'[p].costo = CostoEsperadoEn(recetas', ingredientes', p)]_vars

\* the ingredients of the visible lines of product p
IngredientesDe(p) == {recetas[r].id_ingrediente : r \in LineasVisibles(p)}

\* C17: descontar_inventario_por_venta(P, n) leaves the recipe table, the
\* unit cost of every ingredient and precio_unitario, costo and ganancia of
\* every product as they were; it changes at most cantidad_stock of the
\* ingredients P's lines use and stock_estimado of P.
C17_VentaSinCostos ==
    [][lastOp'.op = "descontar_inventario_por_venta"
       => /\ recetas' = recetas
          /\ DOMAIN productos' = DOMAIN productos
          /\ \A p \in DOMAIN productos :
                productos'[p] =
                    IF p = lastOp'.id
                    THEN [productos[p] EXCEPT
                             !.stock_estimado = productos'[p].stock_estimado]
                    ELSE productos[p]
          /\ DOMAIN ingredientes' = DOMAIN ingredientes
          /\ \A i \in DOMAIN ingredientes :
                ingredientes'[i] =
                    IF i \in IngredientesDe(lastOp'.id)
                    THEN [ingredientes[i] EXCEPT
                             !.cantidad_stock = ingredientes'[i].cantidad_stock]
                    ELSE ingredientes[i]]_vars

\* a sale has just taken stock for a product whose stored cost is not the sum
\* over its recipe: a cost propagation would have changed it
C17_Witness ==
    /\ lastOp.op = "descontar_inventario_por_venta"
    /\ lastOp.id \in DOMAIN productos
    /\ LineasVisibles(lastOp.id) # {}
    /\ productos[lastOp.id].costo # CostoEsperado(lastOp.id)
    /\ \E i \in IngredientesDe(lastOp.id) :
           ingredientes[i].cantidad_stock \notin StocksIniciales

\* the visible lines of p that require a positive quantity
LineasPositivas(p) == {r \in LineasVisibles(p) : recetas[r].cantidad_requerida > 0}

\* the whole units (towards zero) the stock of line r's ingredient gives
UnidadesDe(r) ==
    LET stock == ingredientes[recetas[r].id_ingrediente].cantidad_stock
        q == recetas[r].cantidad_requerida
    IN  IF stock >= 0 THEN stock \div q ELSE 0 - ((0 - stock) \div q)

\* C18: calcular_stock_estimado leaves the lines with cantidad_requerida = 0
\* out of the minimum: the result is the least capacity among the lines that
\* require a positive quantity, and 0 when the recipe is not empty and every
\* line requires 0.
C18_CerosExcluidos ==
    \A p \in Ids :
        /\ LineasPositivas(p) # {}
           => calcular_stock_estimado(DB, p)
                  = SetMin({UnidadesDe(r) : r \in LineasPositivas(p)})
        /\ (LineasVisibles(p) # {} /\ LineasPositivas(p) = {})
           => calcular_stock_estimado(DB, p) = 0

\* actualizar_stock_estimado has just stored a positive estimate for a product
\* one of whose visible lines requires 0
C18_Witness ==
    /\ lastOp.op = "actualizar_stock_estimado"
    /\ lastOp.id \in DOMAIN productos
    /\ LineasPositivas(lastOp.id) # {}
    /\ LineasVisibles(lastOp.id) # LineasPositivas(lastOp.id)
    /\ productos[lastOp.id].stock_estimado > 0

\* C19: recalcular_costo_producto(id) and actualizar_stock_estimado(id) for an
\* id without a product row return normally and leave every product row as
\* it was, whether or not recipe lines still reference that id.
C19_SinProductoNoFalla ==
    [][(/\ lastOp'.op \in {"recalcular_costo_producto", "actualizar_stock_estimado"}
        /\ lastOp'.id \notin DOMAIN productos)
       => /\ lastOp'.ok
          /\ productos' = productos]_vars

\* actualizar_stock_estimado has just run for an id without a product row that
\* visible recipe lines reference, with a positive estimate, another product
\* being stored
C19_Witness ==
    /\ lastOp.op = "actualizar_stock_estimado"
    /\ lastOp.ok
    /\ lastOp.id \notin DOMAIN productos
    /\ LineasVisibles(lastOp.id) # {}
    /\ calcular_stock_estimado(DB, lastOp.id) > 0
    /\ DOMAIN productos # {}

\* the rows of the table t but the row d are, after the step, the rows
\* 1..n of the table t2 in the same order
Compactada(t, t2, d) ==
    /\ DOMAIN t2 = 1..Cardinality(DOMAIN t \ {d})
    /\ \A k \in DOMAIN t \ {d} : t2[NuevoId(t, d, k)] = t[k]

C21_EstimadoComoGuarda ==
    [][(/\ lastOp'.op = "descontar_inventario_por_venta"
        /\ lastOp'.id \in DOMAIN productos
        /\ \A i \in IngredientesDe(lastOp'.id) : ingredientes[i].cantidad_stock >= 0
        /\ 0 < lastOp'.arg
        /\ lastOp'.arg <= calcular_stock_estimado(DB, lastOp'.id))
       => \A i \in IngredientesDe(lastOp'.id) :
              ingredientes'[i].cantidad_stock >= 0]_vars

\* C22: a product that add_producto has just created (under
\* get_next_producto_id() in particular) has no visible recipe line, whatever
\* was called before, the deletion of a product that held that id and had
\* recipe lines included.
C22_ProductoNuevoSinReceta ==
    [][(lastOp'.op = "add_producto" /\ lastOp'.ok)
       => LineasVisiblesEn(recetas', ingredientes', lastOp'.id) = {}]_vars

====
